---- MODULE Spec2Model ----
(***************************************************************************)
(* Memory-augmented session manager of the DevOps agent (src/agent.py).    *)
(*                                                                         *)
(* Part 1: the Session Resolver, MemoryManager.get_or_create_memory, with  *)
(* the Parameter Store and the Memory Store it talks to.  Every external   *)
(* call is one step; an external call either returns or raises.            *)
(*                                                                         *)
(* Strings that the code inspects (resource ids and names) are sequences   *)
(* of tokens, so that `name in id` is a real substring test.  Python's     *)
(* None and the empty string are both the empty sequence: the code only    *)
(* tests them for truth (`if memory_id:`) or, for names, with `is None`.   *)
(***************************************************************************)
EXTENDS Naturals, Sequences, FiniteSets, TLC

VARIABLES
    ssm,          \* Parameter Store: the value at SSM_MEMORY_ID_PATH
    store,        \* Memory Store: its resources, in the order list_memories gives
    nextId,       \* Memory Store: number of ids it has handed out
    pc,           \* per process: where it is in initialize_memory
    run,          \* per process: locals and outcome of its current resolver run
    prev,         \* tier-1 outcome and result of the run completed before this one
    createCount,  \* calls of create_memory_and_wait so far
    agent,        \* the agent instance of the process: hooks and hook registry
    uuidCount,    \* uuid4 values drawn so far
    messages,     \* the agent's transcript (agent.messages)
    tpc,          \* where the Agent Runtime is in the current turn
    events,       \* Memory Store: the events the current agent instance appended
    archive,      \* Memory Store: session ids of the events of earlier instances
    queries,      \* Memory Store calls made by the hooks of the current turn
    replies,      \* what the Memory Store answered to this turn's retrievals
    turnRaised,   \* an exception left a hook and aborted the turn
    rt            \* the runtime entrypoint (agent_runtime.py): its agent, call and response

resolverVars == <<ssm, store, nextId, pc, run, prev, createCount>>

agentVars == <<agent, uuidCount, messages, tpc, events, archive, queries, replies,
               turnRaised, rt>>

vars == <<ssm, store, nextId, pc, run, prev, createCount,
          agent, uuidCount, messages, tpc, events, archive, queries, replies,
          turnRaised, rt>>

\* ---------------------------------------------------------------- bounds
MaxCreate == 2

\* ------------------------------------------------------------- constants
NoId == <<>>
NoName == <<>>
MEMORY_NAME == <<"DevOpsAgent", "Memory">>
OTHER_NAME == <<"Other", "Memory">>

Statuses == {"CREATING", "ACTIVE", "DELETING", "FAILED"}

\* ids of resources that exist before the first run: one contains the
\* configured name (the service builds ids as <name>-<suffix>), one does not
LegacyId == MEMORY_NAME \o <<"-", "x">>
ForeignId == <<"Other", "-", "y">>
InitIds == {LegacyId, ForeignId}

Suffixes == <<"a", "b", "c", "d">>
FreshId(n) == MEMORY_NAME \o <<"-", Suffixes[n]>>

Procs == {1, 2}
SeqProcs == {1}

\* ---------------------------------------------------------- pure helpers
\* Python's `s in t` on strings
IsSubstring(s, t) ==
    \E i \in 0..Len(t) : i + Len(s) <= Len(t) /\ SubSeq(t, i + 1, i + Len(s)) = s

StoreIds(st) == {st[i].id : i \in 1..Len(st)}

Exists(st, id) == id \in StoreIds(st)

\* mutant: the name comparison is lost, only the id pattern matches
MatchesMemory_LegacyOnly(memory, memory_name) ==
    memory.name = NoName /\ IsSubstring(memory_name, memory.id)
        /\ memory.status = "ACTIVE"

\* the condition of lines 570-571 (the DELETING test of 566 is in the loop)
MatchesMemory(memory, memory_name) ==
    \/ memory.name = memory_name
    \/ (memory.name = NoName /\ IsSubstring(memory_name, memory.id)
        /\ memory.status = "ACTIVE")

\* mutant: the loop does not skip resources in DELETING
RECURSIVE FindLoop_NoDeletingSkip(_, _, _)
FindLoop_NoDeletingSkip(memories, i, memory_name) ==
    IF i > Len(memories) THEN 0
    ELSE IF memories[i].name = memory_name
            \/ (memories[i].name = NoName /\ IsSubstring(memory_name, memories[i].id)
                /\ memories[i].status = "ACTIVE")
         THEN i
         ELSE FindLoop_NoDeletingSkip(memories, i + 1, memory_name)

\* the for loop of _find_existing_memory: index of the resource it returns,
\* 0 when it falls out of the loop
RECURSIVE FindLoop(_, _, _)
FindLoop(memories, i, memory_name) ==
    IF i > Len(memories) THEN 0
    ELSE IF memories[i].status = "DELETING"
         THEN FindLoop(memories, i + 1, memory_name)
         ELSE IF MatchesMemory(memories[i], memory_name) THEN i
              ELSE FindLoop(memories, i + 1, memory_name)

\* mutants: a tier's id is ignored and the next tier runs anyway
AfterTier1_AlwaysList(memory_id) == "list_memories"
AfterTier2_AlwaysCreate(memory_id) == "create"

\* get_or_create_memory, lines 525-533: what follows a tier's return value
AfterTier1(memory_id) == IF memory_id # NoId THEN "return" ELSE "list_memories"
AfterTier2(memory_id) == IF memory_id # NoId THEN "return" ELSE "create"

\* _get_memory_from_ssm, line 539: a non-empty value is verified
AfterSsmRead(memory_id) == IF memory_id # NoId THEN "get_memory" ELSE "tier1_none"

\* mutant: the rejected id is returned all the same
VerifyFailed_KeepsId(memory_id) == memory_id

\* _get_memory_from_ssm, lines 546-550: what tier 1 returns for a cached id
\* that get_memory rejected
VerifyFailed(memory_id) == NoId

\* mutants: an except clause is missing
Tier3Escapes_Reraise == TRUE
SaveEscapes_Propagates == TRUE

\* the except clauses: does the exception leave the method?
Tier1Escapes == FALSE
Tier2Escapes == FALSE
Tier3Escapes == FALSE
SaveEscapes == FALSE

\* initialize_memory, lines 635-648: the value and whether it raises, from
\* what create_or_get_memory_resource returned or raised
InitializeMemory(res, escaped) ==
    IF escaped THEN [value |-> NoId, raised |-> FALSE]
    ELSE IF res # NoId THEN [value |-> res, raised |-> FALSE]
         ELSE [value |-> NoId, raised |-> FALSE]

\* -------------------------------------------------------------- the state
Resource(id, name, status) == [id |-> id, name |-> name, status |-> status]

InitResources ==
    {Resource(id, name, s) : id \in InitIds, name \in {MEMORY_NAME, NoName, OTHER_NAME},
                             s \in Statuses}

\* before the first run the store is empty or holds one resource that
\* somebody else made
InitStores == {<<>>} \cup {<<r>> : r \in InitResources}

FreshRun ==
    [memory_id |-> NoId,      \* the local of the tier that is executing
     t1        |-> "none",    \* how tier 1 ended
     listed    |-> <<>>,      \* what list_memories returned
     listOk    |-> FALSE,     \* list_memories returned (did not raise)
     found     |-> NoId,      \* what _find_existing_memory matched
     created   |-> NoId,      \* the id create_memory_and_wait returned
     saved     |-> "none",    \* outcome of put_ssm_parameter
     calls     |-> <<>>,      \* external calls of this run, in order
     result    |-> NoId,      \* what get_or_create_memory returned
     escaped   |-> FALSE,     \* get_or_create_memory raised
     init      |-> [value |-> NoId, raised |-> FALSE]]

NoRun == [t1 |-> "none", result |-> NoId]

NoRegistry == [message_added |-> <<>>, after_invocation |-> <<>>]

\* state: "none" before create_devops_agent, "ready" once Agent(...) returned,
\* "failed" when create_devops_agent raised; strategies_raised records that
\* get_memory_strategies raised during construction
NoAgent ==
    [state |-> "none", memory_id |-> NoId, hooks |-> <<>>, registry |-> NoRegistry,
     strategies_raised |-> FALSE]

\* agent_runtime.py before it is imported: no runtime agent, no call
NoResponse == [status |-> "none", error |-> <<>>, message |-> <<>>]

NoPayload == [dict |-> TRUE, prompt |-> "missing", text |-> <<>>]

NoRuntime ==
    [phase         |-> "import",   \* import, idle, agent_call, returned
     runtime_agent |-> "unset",    \* the module's runtime_agent: unset, ok, none
     payload       |-> NoPayload,  \* the payload of the current call of invoke
     constructed   |-> FALSE,      \* the call constructed a fresh agent
     raised        |-> FALSE,      \* an exception left invoke
     response      |-> NoResponse, \* what invoke returned
     count         |-> 0]          \* calls of invoke so far

InitAgentVars ==
    /\ agent = NoAgent
    /\ uuidCount = 0
    /\ messages = <<>>
    /\ tpc = "idle"
    /\ events = <<>>
    /\ archive = {}
    /\ queries = <<>>
    /\ replies = <<>>
    /\ turnRaised = FALSE
    /\ rt = NoRuntime

Init ==
    /\ ssm \in {NoId, LegacyId}
    /\ store \in InitStores
    /\ nextId = 1
    /\ pc = [p \in Procs |-> "idle"]
    /\ run = [p \in Procs |-> FreshRun]
    /\ prev = NoRun
    /\ createCount = 0
    /\ InitAgentVars

\* ------------------------------------------------- the external services
\* get_ssm_parameter (utils.py): the stored value, or an exception
SsmReadOutcomes == {"ok", "raise"}

\* put_ssm_parameter (utils.py): overwrites the value, or an exception
SsmWriteOutcomes == {"ok", "raise"}

\* gmcp_client.get_memory: returns only for an id the store holds, whatever
\* its status; may raise for any id
GetMemoryOutcomes(st, id) == IF Exists(st, id) THEN {"ok", "raise"} ELSE {"raise"}

\* gmcp_client.list_memories: the store's resources in store order, or raises
ListOutcomes == {"ok", "raise"}

\* MemoryClient.create_memory_and_wait: a new ACTIVE resource named as asked
\* and its id; or an exception, with nothing created or with the new
\* resource left FAILED
CreateOutcomes == {"ok", "raise", "raise_failed"}

\* ------------------------------------------------------------ the resolver
SetRun(p, r) == run' = [run EXCEPT ![p] = r]

Call(r, name) == [r EXCEPT !.calls = Append(@, name)]

\* get_or_create_memory returns res (or raises), and initialize_memory,
\* which wraps it, stores its value in the module's memory_id
Return(p, r, res, escaped) ==
    /\ pc' = [pc EXCEPT ![p] = "done"]
    /\ SetRun(p, [r EXCEPT !.result = res, !.escaped = escaped,
                           !.init = InitializeMemory(res, escaped)])

\* control leaves a tier with the value v
Goto(p, r, target, v) ==
    IF target = "return"
    THEN Return(p, r, v, FALSE)
    ELSE /\ pc' = [pc EXCEPT ![p] = target]
         /\ SetRun(p, r)

\* a process starts initialize_memory (module import, line 664)
Start(p) ==
    /\ pc[p] \in {"idle", "done"}
    /\ \A q \in Procs \ {p} : pc[q] \in {"idle", "done"}
    /\ createCount < MaxCreate
    /\ pc' = [pc EXCEPT ![p] = "ssm_get"]
    /\ SetRun(p, FreshRun)
    /\ prev' = IF \E q \in Procs : pc[q] = "done"
               THEN LET q == CHOOSE q \in Procs : pc[q] = "done" IN
                    [t1 |-> run[q].t1, result |-> run[q].result]
               ELSE prev
    /\ UNCHANGED <<ssm, store, nextId, createCount, agentVars>>

\* _get_memory_from_ssm, lines 537-540 and 548-550
SsmGet(p) ==
    /\ pc[p] = "ssm_get"
    /\ \E o \in SsmReadOutcomes :
        LET r == Call(run[p], "get_ssm_parameter") IN
        IF o = "raise"
        THEN IF Tier1Escapes
             THEN Return(p, [r EXCEPT !.t1 = "read_error"], NoId, TRUE)
             ELSE Goto(p, [r EXCEPT !.t1 = "read_error"], AfterTier1(NoId), NoId)
        ELSE IF AfterSsmRead(ssm) = "get_memory"
             THEN Goto(p, [r EXCEPT !.memory_id = ssm], "get_memory", NoId)
             ELSE Goto(p, [r EXCEPT !.t1 = "empty"], AfterTier1(NoId), NoId)
    /\ UNCHANGED <<ssm, store, nextId, createCount, prev, agentVars>>

\* _get_memory_from_ssm, lines 542-547
GetMemory(p) ==
    /\ pc[p] = "get_memory"
    /\ \E o \in GetMemoryOutcomes(store, run[p].memory_id) :
        LET r == Call(run[p], "get_memory") IN
        IF o = "ok"
        THEN Goto(p, [r EXCEPT !.t1 = "hit"], AfterTier1(r.memory_id), r.memory_id)
        ELSE Goto(p, [r EXCEPT !.t1 = "verify_error", !.memory_id = NoId],
                  AfterTier1(VerifyFailed(r.memory_id)), VerifyFailed(r.memory_id))
    /\ UNCHANGED <<ssm, store, nextId, createCount, prev, agentVars>>

\* _find_existing_memory, lines 554-579, up to the call of _save_memory_id_to_ssm
ListMemories(p) ==
    /\ pc[p] = "list_memories"
    /\ \E o \in ListOutcomes :
        LET r == Call(run[p], "list_memories") IN
        IF o = "raise"
        THEN IF Tier2Escapes
             THEN Return(p, r, NoId, TRUE)
             ELSE Goto(p, r, AfterTier2(NoId), NoId)
        ELSE LET i == FindLoop(store, 1, MEMORY_NAME)
                 r2 == [r EXCEPT !.listed = store, !.listOk = TRUE] IN
             IF i # 0
             THEN Goto(p, [r2 EXCEPT !.memory_id = store[i].id, !.found = store[i].id],
                       "save_found", NoId)
             ELSE Goto(p, r2, AfterTier2(NoId), NoId)
    /\ UNCHANGED <<ssm, store, nextId, createCount, prev, agentVars>>

\* _save_memory_id_to_ssm, lines 622-628, called from the tier `from`
Save(p, from) ==
    /\ pc[p] = from
    /\ \E o \in SsmWriteOutcomes :
        LET r == Call(run[p], "put_ssm_parameter") IN
        IF o = "ok"
        THEN /\ ssm' = r.memory_id
             /\ IF from = "save_found"
                THEN Goto(p, [r EXCEPT !.saved = "ok"], AfterTier2(r.memory_id), r.memory_id)
                ELSE Return(p, [r EXCEPT !.saved = "ok"], r.memory_id, FALSE)
        ELSE /\ ssm' = ssm
             /\ IF SaveEscapes
                \* the exception reaches the except clause of the calling tier
                THEN IF from = "save_found"
                     THEN Goto(p, [r EXCEPT !.saved = "failed", !.found = NoId],
                               AfterTier2(NoId), NoId)
                     ELSE Return(p, [r EXCEPT !.saved = "failed"], NoId, FALSE)
                ELSE IF from = "save_found"
                     THEN Goto(p, [r EXCEPT !.saved = "failed"],
                               AfterTier2(r.memory_id), r.memory_id)
                     ELSE Return(p, [r EXCEPT !.saved = "failed"], r.memory_id, FALSE)
    /\ UNCHANGED <<store, nextId, createCount, prev, agentVars>>

\* _find_existing_memory, line 573-574
SaveFound(p) == Save(p, "save_found")

\* _create_new_memory, lines 597-598
SaveCreated(p) == Save(p, "save_created")

\* _create_new_memory, lines 583-596 and 599-601
Create(p) ==
    /\ pc[p] = "create"
    /\ createCount' = createCount + 1
    /\ \E o \in CreateOutcomes :
        LET r == Call(run[p], "create_memory_and_wait")
            id == FreshId(nextId) IN
        CASE o = "ok" ->
               /\ store' = Append(store, Resource(id, MEMORY_NAME, "ACTIVE"))
               /\ nextId' = nextId + 1
               /\ Goto(p, [r EXCEPT !.memory_id = id, !.created = id], "save_created", NoId)
          [] o = "raise" ->
               /\ UNCHANGED <<store, nextId>>
               /\ Return(p, r, NoId, Tier3Escapes)
          [] o = "raise_failed" ->
               /\ store' = Append(store, Resource(id, MEMORY_NAME, "FAILED"))
               /\ nextId' = nextId + 1
               /\ Return(p, r, NoId, Tier3Escapes)
    /\ UNCHANGED <<ssm, prev, agentVars>>

\* ------------------------------------------------------- the environment
\* the life cycle of a resource in the Memory Store: creation ends in ACTIVE
\* or FAILED, an operator's delete request puts it in DELETING
StatusAfter(s) ==
    CASE s = "CREATING" -> {"ACTIVE", "FAILED", "DELETING"}
      [] s = "ACTIVE"   -> {"DELETING"}
      [] s = "FAILED"   -> {"DELETING"}
      [] OTHER          -> {}

EnvSetStatus ==
    /\ \E i \in 1..Len(store) : \E s \in StatusAfter(store[i].status) :
        store' = [store EXCEPT ![i].status = s]
    /\ UNCHANGED <<ssm, nextId, pc, run, prev, createCount, agentVars>>

\* a resource in DELETING is gone from the store
EnvDelete ==
    /\ \E i \in 1..Len(store) :
        /\ store[i].status = "DELETING"
        /\ store' = SubSeq(store, 1, i - 1) \o SubSeq(store, i + 1, Len(store))
    /\ UNCHANGED <<ssm, nextId, pc, run, prev, createCount, agentVars>>

Resolver(p) ==
    \/ Start(p)
    \/ SsmGet(p)
    \/ GetMemory(p)
    \/ ListMemories(p)
    \/ SaveFound(p)
    \/ Create(p)
    \/ SaveCreated(p)

Next ==
    \/ \E p \in SeqProcs : Resolver(p)
    \/ EnvSetStatus
    \/ EnvDelete

Spec == Init /\ [][Next]_vars

\* --------------------------------------------- two deployments at a time
\* two processes import the module against the same empty Parameter Store
\* and Memory Store; nothing in lines 520-628 takes a lock, so the external
\* calls of the two runs interleave freely
InitConcurrent ==
    /\ ssm = NoId
    /\ store = <<>>
    /\ nextId = 1
    /\ pc = [p \in Procs |-> "idle"]
    /\ run = [p \in Procs |-> FreshRun]
    /\ prev = NoRun
    /\ createCount = 0
    /\ InitAgentVars

\* a process starts initialize_memory (line 664) whatever the other is doing
StartConcurrent(p) ==
    /\ pc[p] = "idle"
    /\ pc' = [pc EXCEPT ![p] = "ssm_get"]
    /\ SetRun(p, FreshRun)
    /\ UNCHANGED <<ssm, store, nextId, createCount, prev, agentVars>>

NextConcurrent ==
    \E p \in Procs :
        \/ StartConcurrent(p)
        \/ SsmGet(p)
        \/ GetMemory(p)
        \/ ListMemories(p)
        \/ SaveFound(p)
        \/ Create(p)
        \/ SaveCreated(p)

SpecConcurrent == InitConcurrent /\ [][NextConcurrent]_vars

TypeOK ==
    /\ pc \in [Procs -> {"idle", "ssm_get", "get_memory", "list_memories",
                         "save_found", "create", "save_created", "done"}]
    /\ createCount \in 0..MaxCreate
    /\ Cardinality(StoreIds(store)) = Len(store)

\* --------------------------------------------- discovery on its own
\* _find_existing_memory applied to every list of up to MaxList resources,
\* entered as get_or_create_memory enters it: tier 1 found nothing cached
MaxList == 3

ThirdId == MEMORY_NAME \o <<"-", "z">>
ListIds == InitIds \cup {ThirdId}

ListResources ==
    {Resource(id, name, s) : id \in ListIds, name \in {MEMORY_NAME, NoName, OTHER_NAME},
                             s \in Statuses}

\* the lists of at most n resources with distinct ids
RECURSIVE ListsOf(_)
ListsOf(n) ==
    IF n = 0 THEN {<<>>}
    ELSE LET shorter == ListsOf(n - 1) IN
         shorter \cup UNION {{Append(l, r) : r \in {x \in ListResources : x.id \notin StoreIds(l)}}
                             : l \in {x \in shorter : Len(x) = n - 1}}

InitFind ==
    /\ ssm = NoId
    /\ store \in ListsOf(MaxList)
    /\ nextId = 1
    /\ pc = [p \in Procs |-> IF p \in SeqProcs THEN "list_memories" ELSE "idle"]
    /\ run = [p \in Procs |->
                IF p \in SeqProcs
                THEN [FreshRun EXCEPT !.t1 = "empty", !.calls = <<"get_ssm_parameter">>]
                ELSE FreshRun]
    /\ prev = NoRun
    /\ createCount = 0
    /\ InitAgentVars

NextFind ==
    \E p \in SeqProcs : ListMemories(p) \/ SaveFound(p) \/ Create(p) \/ SaveCreated(p)

SpecFind == InitFind /\ [][NextFind]_vars

\* ------------------------------------------------------------ properties
Done(p) == pc[p] = "done"

Count(seq, x) == Cardinality({i \in 1..Len(seq) : seq[i] = x})

Position(seq, x) ==
    IF \E i \in 1..Len(seq) : seq[i] = x
    THEN CHOOSE i \in 1..Len(seq) : seq[i] = x /\ \A j \in 1..(i - 1) : seq[j] # x
    ELSE 0

\* the match rule as the specification words it
Eligible(m) ==
    /\ m.status # "DELETING"
    /\ \/ m.name = MEMORY_NAME
       \/ (m.name = NoName /\ IsSubstring(MEMORY_NAME, m.id) /\ m.status = "ACTIVE")

HasEligible(l) == \E i \in 1..Len(l) : Eligible(l[i])

FirstEligible(l) ==
    IF HasEligible(l)
    THEN l[CHOOSE i \in 1..Len(l) : Eligible(l[i]) /\ \A j \in 1..(i - 1) : ~Eligible(l[j])].id
    ELSE NoId

\* C1: the tiers run in the order cached lookup, discovery, creation and stop
\* at the first that yields an id; with nothing cached and a listed match the
\* run returns the discovered id without calling create_memory_and_wait; with
\* nothing cached and no listed match it calls create_memory_and_wait once.
C1_FallbackOrder ==
    \A p \in SeqProcs : Done(p) =>
        LET c == run[p].calls
            pGet == Position(c, "get_ssm_parameter")
            pList == Position(c, "list_memories")
            pCreate == Position(c, "create_memory_and_wait") IN
        /\ pGet = 1
        /\ pList # 0 => pGet < pList
        /\ pCreate # 0 => (pList # 0 /\ pList < pCreate)
        /\ run[p].t1 = "hit" => (pList = 0 /\ pCreate = 0)
        /\ run[p].found # NoId => pCreate = 0
        /\ (run[p].t1 = "empty" /\ run[p].listOk /\ HasEligible(run[p].listed))
              => (run[p].result = FirstEligible(run[p].listed) /\ pCreate = 0)
        /\ (run[p].t1 = "empty" /\ run[p].listOk /\ ~HasEligible(run[p].listed))
              => Count(c, "create_memory_and_wait") = 1

C1_Witness ==
    \E p \in SeqProcs :
        /\ Done(p) /\ run[p].t1 = "empty" /\ run[p].listOk
        /\ HasEligible(run[p].listed)
        /\ run[p].result = run[p].found /\ run[p].found # NoId
        /\ prev.t1 = "empty" /\ prev.result # NoId

\* C2: a run whose cached id get_memory accepts returns that id and calls
\* nothing but the Parameter Store read and get_memory; two such runs in a
\* row return the same id.
C2_IdempotentResolution ==
    \A p \in SeqProcs : (Done(p) /\ run[p].t1 = "hit") =>
        /\ run[p].calls = <<"get_ssm_parameter", "get_memory">>
        /\ run[p].result # NoId
        /\ run[p].result = ssm
        /\ run[p].saved = "none"
        /\ prev.t1 = "hit" => prev.result = run[p].result

C2_Witness ==
    \E p \in SeqProcs :
        /\ Done(p) /\ run[p].t1 = "hit" /\ prev.t1 = "hit"
        /\ prev.result = run[p].result /\ run[p].result = LegacyId

AllTiersFail(r) ==
    /\ r.t1 \in {"empty", "read_error", "verify_error"}
    /\ r.found = NoId
    /\ Count(r.calls, "create_memory_and_wait") = 1
    /\ r.created = NoId

\* C3: get_or_create_memory and initialize_memory never raise, and when all
\* three tiers fail both return None.
C3_AllFailReturnsNone ==
    \A p \in SeqProcs : Done(p) =>
        /\ ~run[p].escaped
        /\ ~run[p].init.raised
        /\ AllTiersFail(run[p]) => (run[p].result = NoId /\ run[p].init.value = NoId)

C3_Witness ==
    \E p \in SeqProcs :
        /\ Done(p) /\ AllTiersFail(run[p]) /\ run[p].result = NoId
        /\ run[p].t1 = "verify_error" /\ ~run[p].listOk

\* the step in which p calls create_memory_and_wait
CreateCall(p) == pc[p] = "create" /\ pc'[p] # "create"

NamedExists(st) == \E i \in 1..Len(st) : st[i].name = MEMORY_NAME

NamedUsable(st) ==
    \E i \in 1..Len(st) : st[i].name = MEMORY_NAME /\ st[i].status # "DELETING"

\* C4 as claimed: while a resource with the configured name exists, no run
\* calls create_memory_and_wait, whatever failed in that run.
C4_NoDuplicateCreation ==
    [][\A p \in SeqProcs : CreateCall(p) => ~NamedExists(store)]_vars

\* C4 as amended: while a resource with the configured name exists and is
\* not in DELETING, no run whose list call returned calls
\* create_memory_and_wait.
C4_NoDuplicateAfterListing ==
    [][\A p \in SeqProcs : (CreateCall(p) /\ run[p].listOk) => ~NamedUsable(store)]_vars

\* a second run discovered the resource the first run created, although its
\* id never reached the Parameter Store
C4_Witness ==
    \E p \in SeqProcs :
        /\ Done(p) /\ createCount = 1 /\ prev.result # NoId
        /\ run[p].t1 = "empty" /\ run[p].listOk
        /\ run[p].found = FreshId(1)
        /\ Count(run[p].calls, "create_memory_and_wait") = 0

StatusOf(st, id) ==
    IF Exists(st, id)
    THEN st[CHOOSE i \in 1..Len(st) : st[i].id = id].status
    ELSE "ABSENT"

\* the step in which get_or_create_memory returns
Returns(p) == pc[p] # "done" /\ pc'[p] = "done"

\* C5: an id is returned only for a resource that is ACTIVE at that time.
C5_ReturnedIdIsActive ==
    [][\A p \in SeqProcs : (Returns(p) /\ run'[p].result # NoId)
            => StatusOf(store', run'[p].result) = "ACTIVE"]_vars

\* C6: when the Parameter Store read raises or get_memory rejects the cached
\* id, the run goes on to list_memories and returns what discovery matched
\* or, failing that, what creation returned.
C6_StaleCachedId ==
    \A p \in SeqProcs : (Done(p) /\ run[p].t1 \in {"read_error", "verify_error"}) =>
        LET c == run[p].calls
            n == IF run[p].t1 = "read_error" THEN 1 ELSE 2 IN
        /\ Len(c) > n /\ c[n + 1] = "list_memories"
        /\ run[p].result =
              IF run[p].listOk /\ HasEligible(run[p].listed)
              THEN FirstEligible(run[p].listed)
              ELSE run[p].created

\* the cached id was rejected and the run created a resource instead
C6_Witness ==
    \E p \in SeqProcs :
        /\ Done(p) /\ run[p].t1 = "verify_error"
        /\ run[p].created # NoId /\ run[p].result = run[p].created

\* C7: a failed Parameter Store write does not lose the id that discovery or
\* creation obtained; after a successful write the Parameter Store holds the
\* returned id.
C7_BestEffortPersist ==
    \A p \in SeqProcs : Done(p) =>
        /\ run[p].saved = "failed" =>
              (run[p].result # NoId /\ run[p].result \in {run[p].found, run[p].created})
        /\ run[p].saved = "ok" => (run[p].result # NoId /\ ssm = run[p].result)

C7_Witness ==
    \E p \in SeqProcs :
        /\ Done(p) /\ run[p].saved = "failed"
        /\ run[p].created # NoId /\ run[p].result = run[p].created
        /\ ssm # run[p].result

\* C8: _find_existing_memory returns the id of the first listed resource that
\* is not in DELETING and whose name is the configured name, or whose name is
\* null while its id contains the configured name and its status is ACTIVE;
\* None when there is no such resource.
C8_DiscoveryMatchRule ==
    \A p \in SeqProcs : run[p].listOk =>
        /\ run[p].found = FirstEligible(run[p].listed)
        /\ run[p].found # NoId => StatusOf(run[p].listed, run[p].found) # "DELETING"

\* the match is the third entry, behind a DELETING resource with the
\* configured name and a nameless one that is not ACTIVE
C8_Witness ==
    \E p \in SeqProcs :
        /\ run[p].listOk /\ Len(run[p].listed) = 3
        /\ run[p].listed[1].status = "DELETING" /\ run[p].listed[1].name = MEMORY_NAME
        /\ run[p].listed[2].name = NoName /\ run[p].listed[2].status = "FAILED"
        /\ IsSubstring(MEMORY_NAME, run[p].listed[2].id)
        /\ run[p].found = run[p].listed[3].id

\* ===================================================== the agent instance
\* Texts are sequences of pieces, so that formatting is concatenation.
MaxAgents == 2
MaxMessages == 4

DEVOPS_USER_ID == "devops_001"
CONTEXT_RETRIEVAL_TOP_K == 3

NL == "\n"
Whitespace == {" ", NL}

RECURSIVE StripLeft(_)
StripLeft(t) ==
    IF t = <<>> THEN <<>>
    ELSE IF Head(t) \in Whitespace THEN StripLeft(Tail(t)) ELSE t

RECURSIVE StripRight(_)
StripRight(t) ==
    IF t = <<>> THEN <<>>
    ELSE IF t[Len(t)] \in Whitespace THEN StripRight(SubSeq(t, 1, Len(t) - 1)) ELSE t

\* str.strip()
Strip(t) == StripRight(StripLeft(t))

\* str.upper() on the strategy types in use
Upper(type) ==
    CASE type = "preference" -> "PREFERENCE"
      [] type = "semantic"   -> "SEMANTIC"
      [] OTHER               -> type

\* "\n".join(lines)
RECURSIVE Join(_)
Join(lines) ==
    IF lines = <<>> THEN <<>>
    ELSE IF Len(lines) = 1 THEN lines[1]
         ELSE lines[1] \o <<NL>> \o Join(Tail(lines))

\* the template sent as it is
Format_NoSubstitution(template, actor_id) == template

\* namespace.format(actorId=actor_id)
Format(template, actor_id) ==
    [i \in 1..Len(template) |-> IF template[i] = "{actorId}" THEN actor_id ELSE template[i]]

\* line 709 without .upper()
ContextLine_NoUpper(context_type, text) == <<"[", context_type, "] ">> \o text

\* line 709: f"[{context_type.upper()}] {text}"
ContextLine(context_type, text) == <<"[", Upper(context_type), "] ">> \o text

\* line 718: f"DevOps Context:\n{context_text}\n\n{original_text}"
Inject(all_context, original_text) ==
    <<"DevOps Context:", NL>> \o Join(all_context) \o <<NL, NL>> \o original_text

\* the namespace templates the resolver configures (lines 603-620), and a
\* second namespace of a strategy, which the hooks must ignore
PreferenceTemplate == <<"agent/devops/", "{actorId}", "/preferences">>
SemanticTemplate == <<"agent/devops/", "{actorId}", "/semantic">>
ExtraTemplate == <<"agent/devops/", "{actorId}", "/extra">>

Strategy(type, namespaces) == [type |-> type, namespaces |-> namespaces]

\* MemoryClient.get_memory_strategies: the strategies of the resource, or an
\* exception
StrategyLists ==
    {<<>>,
     <<Strategy("semantic", <<SemanticTemplate, ExtraTemplate>>)>>,
     <<Strategy("preference", <<PreferenceTemplate>>),
       Strategy("semantic", <<SemanticTemplate, ExtraTemplate>>)>>}

StrategiesOutcomes ==
    {[raise |-> TRUE, strategies |-> <<>>]}
    \cup {[raise |-> FALSE, strategies |-> l] : l \in StrategyLists}

\* a dict as the sequence of its items in insertion order
DictKeys(d) == {d[i].type : i \in 1..Len(d)}

DictPut(d, type, namespace) ==
    IF type \in DictKeys(d)
    THEN [i \in 1..Len(d) |-> IF d[i].type = type
                              THEN [type |-> type, namespace |-> namespace] ELSE d[i]]
    ELSE Append(d, [type |-> type, namespace |-> namespace])

\* DevOpsAgentMemoryHooks.__init__, lines 676-679: the dict comprehension
RECURSIVE NamespacesOf(_, _)
NamespacesOf(strategies, d) ==
    IF strategies = <<>> THEN d
    ELSE NamespacesOf(Tail(strategies),
                      DictPut(d, Head(strategies).type, Head(strategies).namespaces[1]))

\* DevOpsAgentMemoryHooks.__init__: the hook provider, or the exception of
\* get_memory_strategies, which nothing in __init__ catches
MemoryHooks(memory_id, actor_id, session_id, outcome) ==
    IF outcome.raise
    THEN [raised |-> TRUE, hooks |-> <<>>]
    ELSE [raised |-> FALSE,
          hooks  |-> <<[memory_id  |-> memory_id,
                        actor_id   |-> actor_id,
                        session_id |-> session_id,
                        namespaces |-> NamespacesOf(outcome.strategies, <<>>)]>>]

\* create_agent_hooks handing every instance the module's SESSION_ID (line
\* 767) instead of a uuid of its own
CreateAgentHooks_SharedSession(memory_id, session_id, outcome) ==
    IF memory_id = NoId
    THEN [raised |-> FALSE, hooks |-> <<>>]
    ELSE MemoryHooks(memory_id, DEVOPS_USER_ID, 0, outcome)

\* create_agent_hooks, lines 769-780
CreateAgentHooks(memory_id, session_id, outcome) ==
    IF memory_id = NoId
    THEN [raised |-> FALSE, hooks |-> <<>>]
    ELSE MemoryHooks(memory_id, DEVOPS_USER_ID, session_id, outcome)

\* register_hooks with the two callbacks registered for each other's event
RegisterHooks_Swapped(hooks) ==
    IF hooks = <<>> THEN NoRegistry
    ELSE [message_added    |-> <<"save_devops_interaction">>,
          after_invocation |-> <<"retrieve_devops_context">>]

\* register_hooks, lines 761-765, for every provider handed to Agent(...)
RegisterHooks(hooks) ==
    IF hooks = <<>> THEN NoRegistry
    ELSE [message_added    |-> <<"retrieve_devops_context">>,
          after_invocation |-> <<"save_devops_interaction">>]

\* create_devops_agent, lines 844-866, in the process that imported the
\* module: memory_id is what initialize_memory returned
CreateDevopsAgent(p) ==
    /\ pc[p] = "done"
    /\ tpc = "idle"
    /\ agent.state # "failed"
    /\ uuidCount < MaxAgents
    /\ \E outcome \in StrategiesOutcomes :
        LET memory_id == run[p].init.value
            made == CreateAgentHooks(memory_id, uuidCount + 1, outcome) IN
        \* without a memory id get_memory_strategies is not called
        /\ memory_id = NoId => outcome = [raise |-> FALSE, strategies |-> <<>>]
        /\ uuidCount' = IF memory_id = NoId THEN uuidCount ELSE uuidCount + 1
        /\ agent' = IF made.raised
                    THEN [state |-> "failed", memory_id |-> memory_id,
                          hooks |-> <<>>, registry |-> NoRegistry,
                          strategies_raised |-> TRUE]
                    ELSE [state |-> "ready", memory_id |-> memory_id,
                          hooks |-> made.hooks, registry |-> RegisterHooks(made.hooks),
                          strategies_raised |-> FALSE]
    /\ messages' = <<>>
    /\ queries' = <<>>
    /\ replies' = <<>>
    /\ turnRaised' = FALSE
    /\ events' = <<>>
    /\ archive' = archive \cup {events[i].session_id : i \in 1..Len(events)}
    /\ UNCHANGED <<resolverVars, rt, tpc>>

\* ------------------------------------------------------------ transcripts
\* a content block: {"text": ...}, {"toolUse": ...} or {"toolResult": ...}
TextBlock(text) == [kind |-> "text", text |-> text]
ToolUseBlock == [kind |-> "toolUse", text |-> <<>>]
ToolResultBlock == [kind |-> "toolResult", text |-> <<>>]

Message(role, content) == [role |-> role, content |-> content]

\* messages[-1]
LastEntry(msgs) == msgs[Len(msgs)]

\* "toolResult" in block
HasToolResult(block) == block.kind = "toolResult"

\* block["text"] raises KeyError unless the block has the key
HasText(block) == block.kind = "text"

\* the turns of a conversation are told apart by their texts: the user's
\* n-th utterance is Qn, and the model's final answer to it is An or empty
Questions == <<"Q1", "Q2", "Q3", "Q4", "Q5">>
Answers == <<"A1", "A2", "A3", "A4", "A5">>

TurnNo(msgs) ==
    Cardinality({i \in 1..Len(msgs) :
        msgs[i].role = "user" /\ msgs[i].content[1].kind = "text"})

UserTexts(msgs) == {<<Questions[TurnNo(msgs) + 1]>>}
AssistantTexts(msgs) == {<<Answers[TurnNo(msgs)]>>, <<>>}

\* the role the Agent Runtime gives its own messages
AssistantRoles == {"assistant", "agent"}

\* what MemoryClient.retrieve_memories returns for one namespace: a list of
\* memory records, or an exception
Memory(text) == [dict |-> TRUE, content_dict |-> TRUE, text |-> text]
NotADict == [dict |-> FALSE, content_dict |-> FALSE, text |-> <<>>]
ContentNotADict == [dict |-> TRUE, content_dict |-> FALSE, text |-> <<>>]

MemoryLists ==
    {<<>>,
     <<Memory(<<>>), NotADict, ContentNotADict>>,
     <<NotADict, Memory(<<" ", "m1", NL>>), Memory(<<" ">>), Memory(<<"m2">>)>>}

RetrieveOutcomes ==
    {[raise |-> TRUE, memories |-> <<>>]}
    \cup {[raise |-> FALSE, memories |-> l] : l \in MemoryLists}

\* lines 702-710: the context lines of one namespace's memories
RECURSIVE ContextOf(_, _)
ContextOf(context_type, memories) ==
    IF memories = <<>> THEN <<>>
    ELSE LET memory == Head(memories)
             text == Strip(memory.text)
             rest == ContextOf(context_type, Tail(memories)) IN
         IF memory.dict /\ memory.content_dict /\ text # <<>>
         THEN <<ContextLine(context_type, text)>> \o rest
         ELSE rest

RetrieveQuery(hook, namespace, user_query) ==
    [op        |-> "retrieve_memories",
     memory_id |-> hook.memory_id,
     namespace |-> Format(namespace, hook.actor_id),
     query     |-> user_query,
     top_k     |-> CONTEXT_RETRIEVAL_TOP_K]

\* lines 691-710: the loop over self.namespaces.items(); an exception of
\* retrieve_memories ends the loop
RECURSIVE RetrieveLoop(_, _, _, _, _, _)
RetrieveLoop(hook, i, outs, user_query, all_context, qs) ==
    IF i > Len(hook.namespaces)
    THEN [raised |-> FALSE, all_context |-> all_context, queries |-> qs]
    ELSE LET q == RetrieveQuery(hook, hook.namespaces[i].namespace, user_query) IN
         IF outs[i].raise
         THEN [raised |-> TRUE, all_context |-> all_context, queries |-> Append(qs, q)]
         ELSE RetrieveLoop(hook, i + 1, outs, user_query,
                           all_context \o ContextOf(hook.namespaces[i].type, outs[i].memories),
                           Append(qs, q))

\* the rewrite landing on the first entry of the transcript
SetText_FirstEntry(msgs, text) ==
    [msgs EXCEPT ![1].content[1].text = text]

\* lines 716-718: messages[-1]["content"][0]["text"] = ...
SetText(msgs, text) ==
    [msgs EXCEPT ![Len(msgs)].content[1].text = text]

\* retrieve_devops_context without the test of line 713: the wrapper is
\* written even when nothing was accumulated
RetrieveDevopsContext_AlwaysWraps(hook, msgs, outs) ==
    LET untouched == [raised |-> FALSE, messages |-> msgs, queries |-> <<>>]
        escaped == [raised |-> TRUE, messages |-> msgs, queries |-> <<>>] IN
    IF msgs = <<>> THEN escaped
    ELSE LET last == msgs[Len(msgs)] IN
         IF last.role # "user" THEN untouched
         ELSE IF last.content = <<>> THEN escaped
         ELSE IF HasToolResult(last.content[1]) THEN untouched
         ELSE IF ~HasText(last.content[1]) THEN escaped
         ELSE LET user_query == last.content[1].text
                  got == RetrieveLoop(hook, 1, outs, user_query, <<>>, <<>>) IN
              IF got.raised
              THEN [raised |-> FALSE, messages |-> msgs, queries |-> got.queries]
              ELSE [raised |-> FALSE,
                    messages |-> SetText(msgs, Inject(got.all_context, user_query)),
                    queries |-> got.queries]

\* retrieve_devops_context, lines 681-722: the transcript it leaves, the
\* Memory Store calls it made, and whether an exception left it
RetrieveDevopsContext(hook, msgs, outs) ==
    LET untouched == [raised |-> FALSE, messages |-> msgs, queries |-> <<>>]
        escaped == [raised |-> TRUE, messages |-> msgs, queries |-> <<>>] IN
    IF msgs = <<>> THEN escaped
    ELSE LET last == msgs[Len(msgs)] IN
         IF last.role # "user" THEN untouched
         ELSE IF last.content = <<>> THEN escaped
         ELSE IF HasToolResult(last.content[1]) THEN untouched
         ELSE IF ~HasText(last.content[1]) THEN escaped
         ELSE LET user_query == last.content[1].text
                  got == RetrieveLoop(hook, 1, outs, user_query, <<>>, <<>>) IN
              IF got.raised \/ got.all_context = <<>>
              THEN [raised |-> FALSE, messages |-> msgs, queries |-> got.queries]
              ELSE [raised |-> FALSE,
                    messages |-> SetText(msgs, Inject(got.all_context, user_query)),
                    queries |-> got.queries]

\* lines 733-742: the loop over reversed(messages); error when a message it
\* reads has no first block or no text
RECURSIVE ScanBack(_, _, _)
ScanBack(msgs, i, agent_response) ==
    IF i = 0
    THEN [error |-> FALSE, user_query |-> <<>>, agent_response |-> agent_response]
    ELSE LET msg == msgs[i] IN
         IF msg.role = "agent" /\ agent_response = <<>>
         THEN IF msg.content = <<>> \/ ~HasText(msg.content[1])
              THEN [error |-> TRUE, user_query |-> <<>>, agent_response |-> <<>>]
              ELSE ScanBack(msgs, i - 1, msg.content[1].text)
         ELSE IF msg.role = "user"
              THEN IF msg.content = <<>>
                   THEN [error |-> TRUE, user_query |-> <<>>, agent_response |-> <<>>]
                   ELSE IF HasToolResult(msg.content[1])
                        THEN ScanBack(msgs, i - 1, agent_response)
                        ELSE IF ~HasText(msg.content[1])
                             THEN [error |-> TRUE, user_query |-> <<>>,
                                   agent_response |-> <<>>]
                             ELSE [error |-> FALSE, user_query |-> msg.content[1].text,
                                   agent_response |-> agent_response]
              ELSE ScanBack(msgs, i - 1, agent_response)

\* create_event given the utterance alone, the text behind the context block
Event_UtteranceOnly(hook, user_query, agent_response) ==
    [op         |-> "create_event",
     memory_id  |-> hook.memory_id,
     actor_id   |-> hook.actor_id,
     session_id |-> hook.session_id,
     messages   |-> <<<<<<user_query[Len(user_query)]>>, "USER">>,
                      <<agent_response, "ASSISTANT">>>>]

\* lines 747-755: the arguments of create_event
Event(hook, user_query, agent_response) ==
    [op         |-> "create_event",
     memory_id  |-> hook.memory_id,
     actor_id   |-> hook.actor_id,
     session_id |-> hook.session_id,
     messages   |-> <<<<user_query, "USER">>, <<agent_response, "ASSISTANT">>>>]

\* save_devops_interaction remembering what it wrote: a pair it has already
\* sent in this turn is not sent again
SaveDevopsInteraction_Dedup(hook, msgs) ==
    IF Len(msgs) >= 2 /\ msgs[Len(msgs)].role = "agent"
    THEN LET got == ScanBack(msgs, Len(msgs), <<>>) IN
         IF ~got.error /\ got.user_query # <<>> /\ got.agent_response # <<>>
            /\ \A i \in 1..Len(queries) :
                  queries[i] # Event(hook, got.user_query, got.agent_response)
         THEN <<Event(hook, got.user_query, got.agent_response)>>
         ELSE <<>>
    ELSE <<>>

\* save_devops_interaction without the role test of line 728
SaveDevopsInteraction_NoRoleCheck(hook, msgs) ==
    IF Len(msgs) >= 2
    THEN LET got == ScanBack(msgs, Len(msgs), <<>>) IN
         IF ~got.error /\ got.user_query # <<>> /\ got.agent_response # <<>>
         THEN <<Event(hook, got.user_query, got.agent_response)>>
         ELSE <<>>
    ELSE <<>>

\* save_devops_interaction, lines 724-759: the create_event call it makes,
\* if any; its try block catches everything
SaveDevopsInteraction(hook, msgs) ==
    IF Len(msgs) >= 2 /\ msgs[Len(msgs)].role = "agent"
    THEN LET got == ScanBack(msgs, Len(msgs), <<>>) IN
         IF ~got.error /\ got.user_query # <<>> /\ got.agent_response # <<>>
         THEN <<Event(hook, got.user_query, got.agent_response)>>
         ELSE <<>>
    ELSE <<>>

\* -------------------------------------------------------- the Agent Runtime
Ready == agent.state = "ready" /\ ~turnRaised

\* agent(user_input): the user's message is added to the transcript
UserMessage ==
    /\ Ready /\ tpc = "idle"
    /\ Len(messages) + 2 <= MaxMessages
    /\ \E text \in UserTexts(messages) :
        messages' = Append(messages, Message("user", <<TextBlock(text)>>))
    /\ tpc' = "message_added"
    /\ queries' = <<>>
    /\ replies' = <<>>
    /\ UNCHANGED <<resolverVars, rt, agent, uuidCount, events, archive, turnRaised>>

\* what the runtime does after the callbacks of a message-added event
AfterMessage(msgs) ==
    LET last == msgs[Len(msgs)] IN
    IF last.role = "user" THEN "model"
    ELSE IF last.content # <<>> /\ last.content[1].kind = "toolUse" THEN "tool"
         ELSE "after_invocation"

\* MemoryClient.create_event appends the event, or raises
CreateEventOutcomes == {"ok", "raise"}

\* the except clause of lines 758-759 left out: what create_event raises
\* leaves the callback
CreateEventResult_Propagates(call, o) ==
    [raised |-> call # <<>> /\ o = "raise",
     written |-> IF o = "ok" THEN call ELSE <<>>]

\* lines 747-759: the call of create_event inside the try block; what it
\* raises is caught and logged
CreateEventResult(call, o) ==
    [raised |-> FALSE,
     written |-> IF o = "ok" THEN call ELSE <<>>]

\* a registered callback is called with the event: what it leaves behind
RunCallback(name, hook, msgs, outs, o) ==
    IF name = "retrieve_devops_context"
    THEN LET got == RetrieveDevopsContext(hook, msgs, outs) IN
         [raised   |-> got.raised,
          messages |-> got.messages,
          queries  |-> got.queries,
          replies  |-> SubSeq(outs, 1, Len(got.queries)),
          written  |-> <<>>]
    ELSE LET call == SaveDevopsInteraction(hook, msgs)
             res == CreateEventResult(call, o) IN
         [raised   |-> res.raised,
          messages |-> msgs,
          queries  |-> call,
          replies  |-> <<>>,
          written  |-> res.written]

\* the outcomes of the Memory Store calls the callback may make
OutcomesFor(name, hook) ==
    IF name = "retrieve_devops_context"
    THEN [1..Len(hook.namespaces) -> RetrieveOutcomes]
    ELSE {<<>>}

CreateOutcomesFor(name) ==
    IF name = "save_devops_interaction" THEN CreateEventOutcomes ELSE {"ok"}

\* MessageAddedEvent: the registered callbacks run to completion
MessageAdded ==
    /\ Ready /\ tpc = "message_added"
    /\ IF agent.registry.message_added = <<>>
       THEN /\ tpc' = AfterMessage(messages)
            /\ UNCHANGED <<messages, events, queries, replies, turnRaised>>
       ELSE LET hook == agent.hooks[1]
                name == agent.registry.message_added[1] IN
            \E outs \in OutcomesFor(name, hook), o \in CreateOutcomesFor(name) :
                LET got == RunCallback(name, hook, messages, outs, o) IN
                /\ messages' = got.messages
                /\ queries' = queries \o got.queries
                /\ replies' = replies \o got.replies
                /\ events' = events \o got.written
                /\ turnRaised' = got.raised
                /\ tpc' = IF got.raised THEN "idle" ELSE AfterMessage(got.messages)
    /\ UNCHANGED <<resolverVars, rt, agent, uuidCount, archive>>

\* the model answers: a final text, or a request to use a tool
ModelResponds ==
    /\ Ready /\ tpc = "model"
    /\ \E role \in AssistantRoles :
        \/ \E text \in AssistantTexts(messages) :
               messages' = Append(messages, Message(role, <<TextBlock(text)>>))
        \/ /\ Len(messages) + 3 <= MaxMessages
           /\ messages' = Append(messages, Message(role, <<ToolUseBlock>>))
    /\ tpc' = "message_added"
    /\ UNCHANGED <<resolverVars, rt, agent, uuidCount, events, archive, queries, replies,
                   turnRaised>>

\* the Tool Provider's result comes back as a user message
ToolRuns ==
    /\ Ready /\ tpc = "tool"
    /\ messages' = Append(messages, Message("user", <<ToolResultBlock>>))
    /\ tpc' = "message_added"
    /\ UNCHANGED <<resolverVars, rt, agent, uuidCount, events, archive, queries, replies,
                   turnRaised>>

\* AfterInvocationEvent: the registered callbacks run to completion
AfterInvocation ==
    /\ Ready /\ tpc = "after_invocation"
    /\ IF agent.registry.after_invocation = <<>>
       THEN UNCHANGED <<messages, events, queries, replies, turnRaised>>
       ELSE LET hook == agent.hooks[1]
                name == agent.registry.after_invocation[1] IN
            \E outs \in OutcomesFor(name, hook), o \in CreateOutcomesFor(name) :
                LET got == RunCallback(name, hook, messages, outs, o) IN
                /\ messages' = got.messages
                /\ queries' = queries \o got.queries
                /\ replies' = replies \o got.replies
                /\ events' = events \o got.written
                /\ turnRaised' = got.raised
    /\ tpc' = "idle"
    /\ UNCHANGED <<resolverVars, rt, agent, uuidCount, archive>>

Turn ==
    \/ UserMessage
    \/ MessageAdded
    \/ ModelResponds
    \/ ToolRuns
    \/ AfterInvocation

\* one process of a fresh deployment: it imports the module, which runs the
\* resolver once, builds agents and converses
InitAgent ==
    /\ ssm = NoId
    /\ store = <<>>
    /\ nextId = 1
    /\ pc = [p \in Procs |-> "idle"]
    /\ run = [p \in Procs |-> FreshRun]
    /\ prev = NoRun
    /\ createCount = 0
    /\ InitAgentVars

NextAgent ==
    \/ \E p \in SeqProcs :
        \/ (pc[p] = "idle" /\ Start(p))
        \/ SsmGet(p)
        \/ ListMemories(p)
        \/ Create(p)
        \/ SaveCreated(p)
        \/ CreateDevopsAgent(p)
    \/ Turn

SpecAgent == InitAgent /\ [][NextAgent]_vars

\* ------------------------------------------------- the hooks on their own
\* The two callbacks applied to every transcript of up to MaxTranscript
\* entries, whatever produced it: an event is delivered to the hooks of an
\* agent whose memory id came from the Parameter Store.
MaxTranscript == 4

\* a content block that is neither text nor a tool block, e.g. {"image": ...}
ImageBlock == [kind |-> "image", text |-> <<>>]

Pick(names, i) ==
    names[IF i < 1 THEN 1 ELSE IF i > Len(names) THEN Len(names) ELSE i]

\* the entries that may follow msgs in a transcript; the callbacks read the
\* content of "user" and "agent" entries only (lines 686-688 and 734-741), so
\* one content stands for every "assistant" entry
Entries(msgs) ==
    LET n == TurnNo(msgs) IN
    {Message("user", <<b>>) :
        b \in {TextBlock(<<Pick(Questions, n + 1)>>), TextBlock(<<>>),
               ToolResultBlock, ImageBlock}}
    \cup {Message("agent", <<b>>) :
            b \in {TextBlock(<<Pick(Answers, n)>>), TextBlock(<<>>), ToolUseBlock}}
    \cup {Message("assistant", <<TextBlock(<<Pick(Answers, n)>>)>>)}

RECURSIVE Transcripts(_)
Transcripts(n) ==
    IF n = 0 THEN {<<>>}
    ELSE LET shorter == Transcripts(n - 1) IN
         shorter \cup UNION {{Append(msgs, e) : e \in Entries(msgs)} :
                              msgs \in {m \in shorter : Len(m) = n - 1}}

\* the strategies of the resource the resolver creates (lines 603-620)
ConfiguredStrategies ==
    [raise |-> FALSE,
     strategies |-> <<Strategy("preference", <<PreferenceTemplate>>),
                      Strategy("semantic", <<SemanticTemplate, ExtraTemplate>>)>>]

InitHooks ==
    /\ ssm = LegacyId
    /\ store = <<Resource(LegacyId, MEMORY_NAME, "ACTIVE")>>
    /\ nextId = 1
    /\ pc = [p \in Procs |-> IF p \in SeqProcs THEN "done" ELSE "idle"]
    /\ run = [p \in Procs |->
                IF p \in SeqProcs
                THEN [FreshRun EXCEPT !.memory_id = LegacyId, !.t1 = "hit",
                                      !.calls = <<"get_ssm_parameter", "get_memory">>,
                                      !.result = LegacyId,
                                      !.init = InitializeMemory(LegacyId, FALSE)]
                ELSE FreshRun]
    /\ prev = NoRun
    /\ createCount = 0
    /\ LET made == CreateAgentHooks(LegacyId, 1, ConfiguredStrategies) IN
       agent = [state |-> "ready", memory_id |-> LegacyId,
                hooks |-> made.hooks, registry |-> RegisterHooks(made.hooks),
                strategies_raised |-> FALSE]
    /\ uuidCount = 1
    /\ messages \in Transcripts(MaxTranscript)
    /\ tpc \in {"message_added", "after_invocation"}
    /\ events = <<>>
    /\ archive = {}
    /\ queries = <<>>
    /\ replies = <<>>
    /\ turnRaised = FALSE
    /\ rt = NoRuntime

\* the runtime delivers the AfterInvocationEvent of the same turn once more
\* (a retry): the callback is called again on the unchanged transcript
MaxDeliveries == 2

Redeliver ==
    /\ Ready /\ tpc = "idle"
    /\ Len(queries) < MaxDeliveries
    /\ tpc' = "after_invocation"
    /\ UNCHANGED <<resolverVars, rt, agent, uuidCount, messages, events, archive, queries,
                   replies, turnRaised>>

NextHooks ==
    \/ MessageAdded
    \/ AfterInvocation
    \/ Redeliver

SpecHooks == InitHooks /\ [][NextHooks]_vars

\* ------------------------------------------------ the runtime entrypoint
\* agent_runtime.py: the module imports agent (which runs the resolver),
\* builds runtime_agent, and then serves calls of invoke, one at a time.
MaxInvocations == 2

ErrorResponse(error) == [status |-> "error", error |-> error, message |-> <<>>]

SuccessResponse(message) == [status |-> "success", error |-> <<>>, message |-> message]

\* the payloads of the n-th call: not a dict at all, or a dict whose 'prompt'
\* is missing, the empty string, a number, or a text
Payloads(n) ==
    {[dict |-> FALSE, prompt |-> "missing", text |-> <<>>]}
    \cup {[dict |-> TRUE, prompt |-> k, text |-> <<>>] : k \in {"missing", "empty", "number"}}
    \cup {[dict |-> TRUE, prompt |-> "text", text |-> <<Pick(Questions, n)>>]}

\* invoke accepting a payload without a prompt
InvokeEntry_NoPromptCheck(runtime_agent, payload) ==
    IF runtime_agent = "none"
    THEN [next |-> "return", response |-> ErrorResponse(<<"Agent not initialized properly">>)]
    ELSE IF ~payload.dict
    THEN [next |-> "return", response |-> ErrorResponse(<<"Unexpected error: ", "AttributeError">>)]
    ELSE IF payload.prompt = "number"
    THEN [next |-> "return", response |-> ErrorResponse(<<"Unexpected error: ", "TypeError">>)]
    ELSE [next |-> "agent", response |-> NoResponse]

\* invoke, lines 139-163 of agent_runtime.py: up to the agent call.  A
\* payload that is not a dict has no get, and a prompt that is a number
\* cannot be sliced: both exceptions reach the handler of line 231.
InvokeEntry(runtime_agent, payload) ==
    IF runtime_agent = "none"
    THEN [next |-> "return", response |-> ErrorResponse(<<"Agent not initialized properly">>)]
    ELSE IF ~payload.dict
    THEN [next |-> "return", response |-> ErrorResponse(<<"Unexpected error: ", "AttributeError">>)]
    ELSE IF payload.prompt \in {"missing", "empty"}
    THEN [next |-> "return", response |-> ErrorResponse(<<"No prompt found in input.">>)]
    ELSE IF payload.prompt = "number"
    THEN [next |-> "return", response |-> ErrorResponse(<<"Unexpected error: ", "TypeError">>)]
    ELSE [next |-> "agent", response |-> NoResponse]

\* agent_runtime_simple.invoke, lines 20-55: no agent at all
SimpleInvoke(payload) ==
    IF ~payload.dict
    THEN ErrorResponse(<<"Processing failed: ", "AttributeError">>)
    ELSE IF payload.prompt \in {"missing", "empty"}
    THEN ErrorResponse(<<"No prompt found in input.">>)
    ELSE SuccessResponse(<<"DevOps Agent Response: ">> \o payload.text)

\* create_fresh_agent_instance, lines 78-119 of agent_runtime.py: hooks=[]
FreshAgentHooks == <<>>

FreshAgent(memory_id) ==
    [state |-> "ready", memory_id |-> memory_id,
     hooks |-> FreshAgentHooks, registry |-> RegisterHooks(FreshAgentHooks),
     strategies_raised |-> FALSE]

\* lines 177-201 of agent_runtime.py: the text of the response message,
\* str(response) when it has none
RECURSIVE BlockTexts(_)
BlockTexts(content) ==
    IF content = <<>> THEN <<>>
    ELSE (IF HasText(Head(content)) THEN Head(content).text ELSE <<>>)
         \o BlockTexts(Tail(content))

MessageText(msg) ==
    IF BlockTexts(msg.content) = <<>> THEN <<"str(response)">>
    ELSE BlockTexts(msg.content)

Returned_(r, response) ==
    [r EXCEPT !.phase = "returned", !.response = response]

\* lines 121-127 of agent_runtime.py: runtime_agent = create_runtime_agent(),
\* or None when create_agent_hooks or Agent(...) raised.  invoke only tests
\* it against None.
CreateRuntimeAgent(p) ==
    /\ pc[p] = "done"
    /\ rt.phase = "import"
    /\ \E outcome \in StrategiesOutcomes, o \in {"ok", "raise"} :
        LET memory_id == run[p].init.value
            made == CreateAgentHooks(memory_id, uuidCount + 1, outcome) IN
        /\ memory_id = NoId => outcome = [raise |-> FALSE, strategies |-> <<>>]
        /\ uuidCount' = IF memory_id = NoId THEN uuidCount ELSE uuidCount + 1
        /\ rt' = [rt EXCEPT !.phase = "idle",
                            !.runtime_agent = IF made.raised \/ o = "raise"
                                              THEN "none" ELSE "ok"]
    /\ UNCHANGED <<resolverVars, agent, messages, tpc, events, archive, queries,
                   replies, turnRaised>>

\* invoke(payload), lines 129-170 of agent_runtime.py: it returns an error
\* response, or builds a fresh agent and calls it with the prompt
Invoke(p) ==
    /\ pc[p] = "done"
    /\ rt.phase \in {"idle", "returned"}
    /\ rt.count < MaxInvocations
    /\ \E payload \in Payloads(rt.count + 1), o \in {"ok", "raise"} :
        LET e == InvokeEntry(rt.runtime_agent, payload)
            r == [rt EXCEPT !.payload = payload, !.count = @ + 1,
                            !.constructed = FALSE, !.response = NoResponse] IN
        IF e.next = "return"
        THEN /\ rt' = Returned_(r, e.response)
             /\ UNCHANGED <<agent, messages, tpc, queries, replies, turnRaised>>
        ELSE IF o = "raise"
        THEN /\ rt' = Returned_(r, ErrorResponse(<<"Agent processing failed: ">>))
             /\ UNCHANGED <<agent, messages, tpc, queries, replies, turnRaised>>
        ELSE /\ rt' = [r EXCEPT !.phase = "agent_call", !.constructed = TRUE]
             /\ agent' = FreshAgent(run[p].init.value)
             /\ messages' = <<Message("user", <<TextBlock(payload.text)>>)>>
             /\ tpc' = "message_added"
             /\ queries' = <<>>
             /\ replies' = <<>>
             /\ turnRaised' = FALSE
    /\ UNCHANGED <<resolverVars, uuidCount, events, archive>>

\* the deployment of agent_runtime_simple.py serves the call instead
InvokeSimple ==
    /\ rt.phase \in {"idle", "returned"}
    /\ rt.count < MaxInvocations
    /\ \E payload \in Payloads(rt.count + 1) :
        rt' = Returned_([rt EXCEPT !.payload = payload, !.count = @ + 1,
                                  !.constructed = FALSE],
                        SimpleInvoke(payload))
    /\ UNCHANGED <<resolverVars, agent, uuidCount, messages, tpc, events, archive,
                   queries, replies, turnRaised>>

\* lines 171-177 of agent_runtime.py: fresh_agent(user_message) raised (the
\* model or a tool failed)
AgentCallRaises ==
    /\ rt.phase = "agent_call"
    /\ tpc \in {"model", "tool"}
    /\ rt' = Returned_(rt, ErrorResponse(<<"Agent processing failed: ">>))
    /\ tpc' = "idle"
    /\ UNCHANGED <<resolverVars, agent, uuidCount, messages, events, archive, queries,
                   replies, turnRaised>>

\* lines 179-229 of agent_runtime.py: the response is formatted, or the
\* formatting raised
Respond ==
    /\ rt.phase = "agent_call"
    /\ tpc = "idle"
    /\ \E o \in {"ok", "raise"} :
        rt' = Returned_(rt, IF o = "ok"
                           THEN SuccessResponse(MessageText(LastEntry(messages)))
                           ELSE ErrorResponse(<<"Response formatting failed: ">>))
    /\ UNCHANGED <<resolverVars, agent, uuidCount, messages, tpc, events, archive,
                   queries, replies, turnRaised>>

NextRuntime ==
    \/ \E p \in SeqProcs :
        \/ (pc[p] = "idle" /\ Start(p))
        \/ SsmGet(p)
        \/ ListMemories(p)
        \/ Create(p)
        \/ SaveCreated(p)
        \/ CreateRuntimeAgent(p)
        \/ Invoke(p)
    \/ InvokeSimple
    \/ MessageAdded
    \/ ModelResponds
    \/ ToolRuns
    \/ AfterInvocation
    \/ AgentCallRaises
    \/ Respond

SpecRuntime == InitAgent /\ [][NextRuntime]_vars

\* ------------------------------------------------- properties of the agent
HooksRegistered ==
    /\ agent.registry.message_added = <<"retrieve_devops_context">>
    /\ agent.registry.after_invocation = <<"save_devops_interaction">>

\* C9: once create_devops_agent has run, the memory hooks are registered
\* exactly if a memory id was resolved; without a memory id the hook list is
\* empty, the agent is constructed, and no turn makes a Memory Store call.
C9_HooksIffMemory ==
    agent.state # "none" =>
        /\ HooksRegistered <=> agent.memory_id # NoId
        /\ agent.memory_id = NoId =>
              (agent.state = "ready" /\ agent.hooks = <<>> /\ agent.registry = NoRegistry
               /\ queries = <<>> /\ events = <<>>)

\* C10: when get_memory_strategies raised, the agent is constructed all the
\* same, with hooks whose namespace mapping is empty.
C10_StrategiesFailureTolerated ==
    agent.strategies_raised =>
        /\ agent.state = "ready"
        /\ Len(agent.hooks) = 1
        /\ agent.hooks[1].namespaces = <<>>

\* ------------------------------------------------- properties of the hooks
\* a step in which the callbacks of an event ran
MessageAddedStep == tpc = "message_added" /\ tpc' # tpc /\ HooksRegistered

AfterInvocationStep == tpc = "after_invocation" /\ tpc' # tpc /\ HooksRegistered

\* the last entry is a user entry whose first block is not a tool result
RetrieverEligible(msgs) ==
    /\ msgs # <<>>
    /\ LastEntry(msgs).role = "user"
    /\ LastEntry(msgs).content # <<>>
    /\ ~HasToolResult(LastEntry(msgs).content[1])

\* C11: when the last entry is a tool result or an assistant message, or the
\* transcript is empty, retrieve_devops_context makes no Memory Store query,
\* leaves the transcript unchanged and returns without raising.
C11_RetrieverEligibility ==
    [][MessageAddedStep /\ ~RetrieverEligible(messages) =>
          /\ queries' = queries
          /\ messages' = messages
          /\ ~turnRaised']_vars

\* a match as the spec counts it: a record whose content has a text field
\* that is not empty
HasNonEmptyText(memory) == memory.dict /\ memory.content_dict /\ memory.text # <<>>

\* the query returned, and none of its matches has a non-empty text
NoMatches(reply) ==
    /\ ~reply.raise
    /\ \A k \in 1..Len(reply.memories) : ~HasNonEmptyText(reply.memories[k])

AllQueried == Len(replies') = Len(agent.hooks[1].namespaces)

\* C12: when every namespace query returns and none returns a match with a
\* non-empty text, retrieve_devops_context leaves the whole transcript as it
\* was: the last entry's text is not wrapped and no other entry changes.
C12_EmptyResultsUntouched ==
    [][MessageAddedStep /\ RetrieverEligible(messages) /\ AllQueried
         /\ (\A i \in 1..Len(replies') : NoMatches(replies'[i]))
       => messages' = messages /\ ~turnRaised']_vars

\* both namespaces were queried for Q1, one of them returned records without
\* text, and the model is about to read the unwrapped Q1
C12_Witness ==
    /\ tpc = "model"
    /\ HooksRegistered
    /\ Len(replies) = 2
    /\ \A i \in 1..Len(replies) : NoMatches(replies[i])
    /\ \E i \in 1..Len(replies) : replies[i].memories # <<>>
    /\ Len(messages) = 1
    /\ messages[1] = Message("user", <<TextBlock(<<"Q1">>)>>)

\* the records the queries returned that carry a text field, in iteration
\* order, each with the strategy type of its namespace
RECURSIVE TextsOf(_, _)
TextsOf(type, memories) ==
    IF memories = <<>> THEN <<>>
    ELSE (IF Head(memories).dict /\ Head(memories).content_dict
          THEN <<[type |-> type, text |-> Head(memories).text]>>
          ELSE <<>>) \o TextsOf(type, Tail(memories))

RECURSIVE Returned(_, _, _)
Returned(namespaces, rs, i) ==
    IF i > Len(rs) THEN <<>>
    ELSE (IF rs[i].raise THEN <<>> ELSE TextsOf(namespaces[i].type, rs[i].memories))
         \o Returned(namespaces, rs, i + 1)

NonEmpty(match) == match.text # <<>>
NonBlank(match) == Strip(match.text) # <<>>

\* "[<TYPE>] <text>" for every match, the text as returned or trimmed
RawLines(matches) ==
    [k \in 1..Len(matches) |-> <<"[", Upper(matches[k].type), "] ">> \o matches[k].text]

TrimmedLines(matches) ==
    [k \in 1..Len(matches) |->
        <<"[", Upper(matches[k].type), "] ">> \o Strip(matches[k].text)]

Wrapped(lines, original_text) ==
    <<"DevOps Context:", NL>> \o Join(lines) \o <<NL, NL>> \o original_text

\* the callbacks ran on a user text and every namespace query returned
RetrievedAll ==
    /\ MessageAddedStep
    /\ RetrieverEligible(messages)
    /\ HasText(LastEntry(messages).content[1])
    /\ AllQueried
    /\ \A i \in 1..Len(replies') : ~replies'[i].raise

LastText(msgs) == LastEntry(msgs).content[1].text

ExpectedAfter(msgs, namespaces, rs) ==
    LET matches == SelectSeq(Returned(namespaces, rs, 1), NonBlank) IN
    IF matches = <<>> THEN msgs
    ELSE SetText(msgs, Wrapped(TrimmedLines(matches), LastText(msgs)))

\* C14: a namespace query that raises contributes nothing, every other
\* namespace is still queried, the injected context is made of the matches
\* of the namespaces whose query returned, and the hook does not raise.
C14_NamespaceFailureIsolated ==
    [][MessageAddedStep /\ RetrieverEligible(messages)
         /\ HasText(LastEntry(messages).content[1])
       => /\ AllQueried
          /\ messages' = ExpectedAfter(messages, agent.hooks[1].namespaces, replies')
          /\ ~turnRaised']_vars

\* C15: retrieve_devops_context returns normally on every transcript and for
\* every outcome of the Memory Store queries: no exception reaches the Agent
\* Runtime.
C15_RetrieverNeverRaises ==
    [][MessageAddedStep => ~turnRaised']_vars

\* the callback called create_event in this step
Wrote == AfterInvocationStep /\ Len(queries') = Len(queries) + 1

Written == queries'[Len(queries')]

\* the user entries before the last entry whose content is not a tool result
Questioners(msgs) ==
    {j \in 1..(Len(msgs) - 1) :
        msgs[j].role = "user" /\ ~HasToolResult(msgs[j].content[1])}

MostRecent(js) == CHOOSE j \in js : \A k \in js : k <= j

\* C16: on every transcript for which save_devops_interaction writes an
\* event, the event's assistant text is the text of the first block of the
\* last entry, and its user text is the text of the most recent user entry
\* before it that is not a tool result; no older question or answer is paired.
C16_RecorderExtraction ==
    [][Wrote =>
         /\ HasText(LastEntry(messages).content[1])
         /\ Written.messages[2][1] = LastText(messages)
         /\ Questioners(messages) # {}
         /\ LET j == MostRecent(Questioners(messages)) IN
            /\ HasText(messages[j].content[1])
            /\ Written.messages[1][1] = messages[j].content[1].text]_vars

\* C17: when the transcript has fewer than two entries or its last entry is
\* not an assistant-role entry (for instance a user entry carrying a tool
\* result), save_devops_interaction writes nothing and does not raise.
C17_NoWriteUnlessAssistantLast ==
    [][AfterInvocationStep
         /\ (Len(messages) < 2 \/ LastEntry(messages).role \notin AssistantRoles)
       => /\ queries' = queries
          /\ events' = events
          /\ ~turnRaised']_vars

\* the callback has run on a complete pair followed by a tool result
C17_Witness ==
    /\ tpc = "idle"
    /\ ~turnRaised
    /\ HooksRegistered
    /\ messages = <<Message("user", <<TextBlock(<<"Q1">>)>>),
                    Message("agent", <<TextBlock(<<"A1">>)>>),
                    Message("user", <<ToolResultBlock>>)>>
    /\ queries = <<>>
    /\ events = <<>>

\* the text of the first block of an entry is empty or cannot be read
NoText(msg) ==
    \/ msg.content = <<>>
    \/ ~HasText(msg.content[1])
    \/ msg.content[1].text = <<>>

\* C18: when the last entry is an assistant-role entry and its text is empty
\* or unobtainable, or the most recent user entry that is not a tool result
\* has empty text or does not exist, save_devops_interaction writes nothing,
\* whatever earlier pairs and tool results the transcript holds.
C18_NoWriteOnEmptyText ==
    [][AfterInvocationStep /\ messages # <<>>
         /\ LastEntry(messages).role \in AssistantRoles
         /\ (\/ NoText(LastEntry(messages))
             \/ Questioners(messages) = {}
             \/ NoText(messages[MostRecent(Questioners(messages))]))
       => /\ queries' = queries
          /\ events' = events]_vars

\* a completed turn: the last entry is an assistant-role entry with text, and
\* the most recent user entry before it that is not a tool result has text
CompletedTurn(msgs) ==
    /\ Len(msgs) >= 2
    /\ LastEntry(msgs).role \in AssistantRoles
    /\ ~NoText(LastEntry(msgs))
    /\ Questioners(msgs) # {}
    /\ ~NoText(msgs[MostRecent(Questioners(msgs))])

\* C19: each time the turn-completed callback runs on a completed turn,
\* whether the last entry's role is 'assistant' or 'agent', it makes exactly
\* one create_event call.
C19_OneEventPerTurn ==
    [][AfterInvocationStep /\ CompletedTurn(messages)
       => /\ Len(queries') = Len(queries) + 1
          /\ Written.op = "create_event"]_vars

\* the texts of an event are those of a user entry and of a later
\* assistant-role entry of the instance's transcript
PairOfTranscript(e) ==
    \E j, k \in 1..Len(messages) :
        /\ j < k
        /\ messages[j].role = "user" /\ HasText(messages[j].content[1])
        /\ messages[k].role \in AssistantRoles /\ HasText(messages[k].content[1])
        /\ e.messages = <<<<messages[j].content[1].text, "USER">>,
                          <<messages[k].content[1].text, "ASSISTANT">>>>

\* C20: every event the current agent instance wrote is the pair
\* (user text, USER), (assistant text, ASSISTANT), carries the memory id
\* initialize_memory resolved, the fixed actor id and the session id drawn
\* when the instance's hooks were made; that session id is shared by all
\* events of the instance and by no event of an earlier instance.
C20_EventTagging ==
    \A i \in 1..Len(events) :
        /\ PairOfTranscript(events[i])
        /\ events[i].memory_id # NoId
        /\ \A p \in SeqProcs : events[i].memory_id = run[p].init.value
        /\ events[i].actor_id = "devops_001"
        /\ events[i].session_id = agent.hooks[1].session_id
        /\ events[i].session_id \notin archive

\* a second agent instance has written two events after the first instance
\* wrote one
C20_Witness ==
    /\ archive # {}
    /\ Len(events) = 2
    /\ events[1].messages = <<<<<<"Q1">>, "USER">>, <<<<"A1">>, "ASSISTANT">>>>
    /\ events[2].messages[2] = <<<<"A2">>, "ASSISTANT">>

\* -------------------------------------------- properties across the turns
\* the recorder's own test of a completed turn (line 728)
RecorderEligible(msgs) == CompletedTurn(msgs) /\ LastEntry(msgs).role = "agent"

\* C21: whether create_event raises or the transcript has a shape the
\* recorder cannot read, save_devops_interaction returns normally and leaves
\* the transcript, with the agent's response in it, and the agent as they
\* were; a turn the recorder accepts is written whether or not an earlier
\* write failed.
C21_RecordingFailureIsolated ==
    [][AfterInvocationStep
       => /\ ~turnRaised'
          /\ messages' = messages
          /\ agent' = agent
          /\ (RecorderEligible(messages) => Wrote)]_vars

\* the write of the first turn failed and the second turn was recorded
C21_Witness ==
    /\ tpc = "idle"
    /\ ~turnRaised
    /\ Len(messages) = 4
    /\ messages[2] = Message("agent", <<TextBlock(<<"A1">>)>>)
    /\ Len(events) = 1
    /\ events[1].messages[2] = <<<<"A2">>, "ASSISTANT">>

\* C22: when the turn-completed callback runs again on the transcript for
\* which it has just called create_event, it calls create_event again with
\* the same content; nothing it keeps suppresses the second write.
C22_NoDeduplication ==
    [][AfterInvocationStep /\ queries # <<>>
         /\ queries[Len(queries)].op = "create_event"
       => /\ Wrote
          /\ Written = queries[Len(queries)]]_vars

\* two deliveries for one turn left two identical events
C22_Witness ==
    /\ tpc = "idle"
    /\ Len(queries) = 2
    /\ queries[1] = queries[2]
    /\ Len(events) = 2
    /\ events[1] = events[2]
    /\ events[1].messages = <<<<<<"Q1">>, "USER">>, <<<<"A1">>, "ASSISTANT">>>>

\* the create_event calls among the Memory Store calls of the current turn
Writes == SelectSeq(queries, LAMBDA q : q.op = "create_event")

\* the namespace queries of the current turn all returned
AllReturned ==
    /\ Len(replies) = Len(agent.hooks[1].namespaces)
    /\ \A i \in 1..Len(replies) : ~replies[i].raise

MatchesNow == SelectSeq(Returned(agent.hooks[1].namespaces, replies, 1), NonBlank)

\* the resolver's run on the empty stores went through without a failure
CreatedFromEmpty(p) ==
    /\ pc[p] = "done"
    /\ run[p].calls = <<"get_ssm_parameter", "list_memories",
                        "create_memory_and_wait", "put_ssm_parameter">>
    /\ run[p].created # NoId
    /\ run[p].saved = "ok"

\* the Agent Runtime is about to process the prompt of turn n
PromptOf(n) ==
    /\ tpc = "model"
    /\ HooksRegistered
    /\ Len(messages) = 2 * n - 1
    /\ LastEntry(messages).role = "user"
    /\ HasText(LastEntry(messages).content[1])

\* turn n is over: question and answer are the last two entries
TurnOver(n) ==
    /\ tpc = "idle"
    /\ HooksRegistered
    /\ ~turnRaised
    /\ Len(messages) = 2 * n
    /\ CompletedTurn(messages)
    /\ messages[2 * n - 1].role = "user"

\* C23: from empty stores the resolver creates a resource and returns its
\* id; with nothing to retrieve the first prompt is the user's utterance;
\* once the runtime has appended its answer X the recorder has made exactly
\* one create_event call, pairing the question with X; and in a later turn
\* the matches the store returns are injected into that turn's prompt.
C23_EndToEnd ==
    /\ \A p \in SeqProcs :
          CreatedFromEmpty(p) =>
              /\ run[p].result = run[p].created
              /\ ssm = run[p].result
              /\ \E i \in 1..Len(store) :
                    store[i].id = run[p].result /\ store[i].status = "ACTIVE"
    /\ (PromptOf(1) /\ AllReturned /\ MatchesNow = <<>>) => LastText(messages) = <<"Q1">>
    /\ TurnOver(1) =>
          /\ Len(Writes) = 1
          /\ Writes[1].messages = <<<<LastText(SubSeq(messages, 1, 1)), "USER">>,
                                    <<LastText(messages), "ASSISTANT">>>>
    /\ (PromptOf(2) /\ AllReturned /\ MatchesNow # <<>>) =>
          LastText(messages) = Wrapped(TrimmedLines(MatchesNow), <<"Q2">>)

\* -------------------------------------- properties of the runtime entrypoint
\* C24: while invoke processes a non-empty prompt, it does so on an agent
\* constructed for this call whose transcript starts with this call's
\* prompt, and when a memory id was resolved the agent carries memory hooks
\* with a session id of its own, registered for both events.
C24_FreshSessionPerInvocation ==
    rt.phase = "agent_call" =>
        /\ rt.constructed
        /\ messages[1].role = "user"
        /\ TurnNo(messages) = 1
        /\ \A p \in SeqProcs :
              run[p].init.value # NoId =>
                  /\ HooksRegistered
                  /\ Len(agent.hooks) = 1
                  /\ agent.hooks[1].memory_id = run[p].init.value
                  /\ agent.hooks[1].session_id = uuidCount

\* C25: invoke never raises; what it returns has status 'success' or 'error',
\* an error response carries an error message, and for a payload whose
\* prompt is missing or empty the response is an error and no agent was
\* constructed or called.
C25_InvokeErrorResponses ==
    /\ ~rt.raised
    /\ rt.phase = "returned" =>
          /\ rt.response.status \in {"success", "error"}
          /\ rt.response.status = "error" => rt.response.error # <<>>
          /\ (rt.payload.dict /\ rt.payload.prompt \in {"missing", "empty"}) =>
                /\ rt.response.status = "error"
                /\ ~rt.constructed

\* the second call, on an initialized runtime agent, had no prompt, after a
\* first call that was answered
C25_Witness ==
    /\ rt.phase = "returned"
    /\ rt.runtime_agent = "ok"
    /\ rt.count = 2
    /\ rt.payload = [dict |-> TRUE, prompt |-> "missing", text |-> <<>>]
    /\ rt.response.status = "error"
    /\ ~rt.constructed
    /\ Len(messages) = 2

\* ---------------------------------------------- more properties of the hooks
\* the namespace of a strategy type for the actor: the first namespace entry
\* of the strategy, the placeholder replaced
ResolvedNamespace(type, actor_id) ==
    CASE type = "semantic"   -> <<"agent/devops/", actor_id, "/semantic">>
      [] type = "preference" -> <<"agent/devops/", actor_id, "/preferences">>

\* C26: the namespace of every retrieval is the first namespace template of
\* its strategy with {actorId} replaced by the actor id; for devops_001 and
\* agent/devops/{actorId}/semantic it is agent/devops/devops_001/semantic;
\* all retrievals of an agent instance use the same actor id.
C26_NamespaceSubstitution ==
    \A i \in 1..Len(replies) :
        /\ queries[i].op = "retrieve_memories"
        /\ agent.hooks[1].actor_id = "devops_001"
        /\ queries[i].namespace =
              ResolvedNamespace(agent.hooks[1].namespaces[i].type, "devops_001")
        /\ \A k \in 1..Len(queries[i].namespace) : queries[i].namespace[k] # "{actorId}"

\* both strategies were queried; the semantic strategy has two namespaces
C26_Witness ==
    /\ tpc = "model"
    /\ Len(replies) = 2
    /\ queries[1].namespace = <<"agent/devops/", "devops_001", "/preferences">>
    /\ queries[2].namespace = <<"agent/devops/", "devops_001", "/semantic">>

WritesOf(qs) == SelectSeq(qs, LAMBDA q : q.op = "create_event")

RetrievalsOf(qs) == SelectSeq(qs, LAMBDA q : q.op = "retrieve_memories")

\* a step in which a Memory Store query was made or a transcript entry rewritten
RetrieverActs ==
    \/ Len(RetrievalsOf(queries')) > Len(RetrievalsOf(queries))
    \/ (Len(messages') = Len(messages) /\ messages' # messages)

\* a step in which create_event was called
RecorderActs == Len(WritesOf(queries')) > Len(WritesOf(queries))

\* C27: the retriever's queries and its rewrite happen in the step after the
\* user's message was added and before the runtime processes the prompt,
\* and nothing is queried or rewritten while the prompt is processed; the
\* recorder writes only when the turn's assistant response is the last
\* entry, as the turn's last step; no step is both.
C27_OrderingWithinTurn ==
    [][/\ RetrieverActs =>
             /\ tpc = "message_added"
             /\ LastEntry(messages).role = "user"
             /\ tpc' \in {"model", "idle"}
       /\ tpc \in {"model", "tool"} =>
             /\ SubSeq(messages', 1, Len(messages)) = messages
             /\ queries' = queries
       /\ RecorderActs =>
             /\ tpc = "after_invocation"
             /\ LastEntry(messages).role \in AssistantRoles
             /\ messages' = messages
             /\ tpc' = "idle"
       /\ ~(RetrieverActs /\ RecorderActs)]_vars

\* a turn with two retrievals, an injection and a write is over
C27_Witness ==
    /\ tpc = "idle"
    /\ Len(queries) = 3
    /\ queries[1].op = "retrieve_memories"
    /\ queries[2].op = "retrieve_memories"
    /\ queries[3].op = "create_event"
    /\ Len(messages) = 2
    /\ messages[1].content[1].text[1] = "DevOps Context:"

\* C28: retrieve_devops_context changes at most the text of the first block
\* of the last entry: the transcript keeps its length, every earlier entry
\* and the last entry's role and block kind are unchanged, no create_event
\* call is made, no event is stored and the Parameter Store is not touched.
C28_RetrieverFrame ==
    [][MessageAddedStep =>
         /\ Len(messages') = Len(messages)
         /\ \A i \in 1..(Len(messages) - 1) : messages'[i] = messages[i]
         /\ messages # <<>> =>
               /\ LastEntry(messages').role = LastEntry(messages).role
               /\ Len(LastEntry(messages').content) = Len(LastEntry(messages).content)
               /\ \A k \in 1..Len(LastEntry(messages).content) :
                     LastEntry(messages').content[k].kind = LastEntry(messages).content[k].kind
         /\ WritesOf(queries') = WritesOf(queries)
         /\ events' = events
         /\ ssm' = ssm]_vars

\* the third entry was rewritten behind a first turn that is as it was
C28_Witness ==
    /\ tpc = "model"
    /\ HooksRegistered
    /\ Len(messages) = 3
    /\ messages[1] = Message("user", <<TextBlock(<<"Q1">>)>>)
    /\ messages[2] = Message("agent", <<TextBlock(<<"A1">>)>>)
    /\ messages[3].role = "user"
    /\ messages[3].content[1].text =
          <<"DevOps Context:", NL, "[", "SEMANTIC", "] ", "m1", NL,
            "[", "SEMANTIC", "] ", "m2", NL, NL, "Q2">>

\* what the user typed in the turn of entry j
Utterance(msgs, j) == <<Questions[TurnNo(SubSeq(msgs, 1, j))]>>

\* text is a 'DevOps Context:' block followed by the original utterance
Rewritten(text, original) ==
    /\ Len(text) > Len(original) + 2
    /\ text[1] = "DevOps Context:"
    /\ SubSeq(text, Len(text) - Len(original) + 1, Len(text)) = original
    /\ SubSeq(text, Len(text) - Len(original) - 1, Len(text) - Len(original)) = <<NL, NL>>

\* C29: the user text of a recorded event is the text of the user entry as
\* the transcript holds it when the recorder runs: the retriever's rewrite
\* puts the 'DevOps Context:' block in front of the utterance, no later step
\* of the turn changes an entry, and the recorder writes the entry's text as
\* it is, so the utterance alone is recorded only when nothing was injected.
C29_RecordedUserText ==
    [][/\ MessageAddedStep /\ messages' # messages =>
            LET original == Utterance(messages, Len(messages)) IN
            /\ LastText(messages) = original
            /\ Rewritten(LastText(messages'), original)
       /\ ~MessageAddedStep /\ Len(messages') >= Len(messages) =>
            SubSeq(messages', 1, Len(messages)) = messages
       /\ Wrote =>
            /\ Questioners(messages) # {}
            /\ LET j == MostRecent(Questioners(messages))
                   original == Utterance(messages, j) IN
               /\ Written.messages[1][1] = messages[j].content[1].text
               /\ \/ Written.messages[1][1] = original
                  \/ Rewritten(Written.messages[1][1], original)]_vars

\* the first turn was recorded with the utterance alone and the second with
\* the context block in front of it
C29_Witness ==
    /\ tpc = "idle"
    /\ Len(events) = 2
    /\ events[1].messages[1][1] = <<"Q1">>
    /\ events[2].messages[1][1] =
          <<"DevOps Context:", NL, "[", "SEMANTIC", "] ", "m1", NL,
            "[", "SEMANTIC", "] ", "m2", NL, NL, "Q2">>
    /\ events[2].messages[2][1] = <<"A2">>
    /\ messages[3].content[1].text = events[2].messages[1][1]

\* ------------------------------------------ properties of concurrent runs
Called(r, name) == \E i \in 1..Len(r.calls) : r.calls[i] = name

\* the Parameter Store and the listing answered every call of the run
Undisturbed(r) ==
    /\ r.t1 \notin {"read_error", "verify_error"}
    /\ Called(r, "list_memories") => r.listOk
    /\ r.saved # "failed"

\* no external call of the run raised
Unfailed(r) ==
    /\ Undisturbed(r)
    /\ Called(r, "create_memory_and_wait") => r.created # NoId
    /\ ~r.escaped

\* C30: when two processes run the resolver concurrently from an empty
\* Parameter Store and an empty Memory Store, create_memory_and_wait is
\* called at most once in total, and when both have returned they hold the
\* same memory id, the one in Parameter Store (external calls not failing).
C30_ConcurrentResolution ==
    /\ (\A p \in Procs : Undisturbed(run[p])) => createCount <= 1
    /\ (\A p \in Procs : Unfailed(run[p]) /\ pc[p] = "done") =>
          /\ \A p, q \in Procs : run[p].result = run[q].result
          /\ \A p \in Procs : ssm = run[p].result

====
